---- MODULE Spec2Model ----
(***************************************************************************)
(* Model of the Hack assembler (assembler.py): line classification, the    *)
(* two-pass symbol table, symbol elimination and binary encoding.          *)
(*                                                                         *)
(* Text is modelled as sequences of one-character strings, so that the     *)
(* regular expressions, str.strip, str.index, int() and "%d" are computed  *)
(* character by character as the code computes them.                       *)
(***************************************************************************)
EXTENDS Integers, Sequences, FiniteSets, TLC

VARIABLES program_lines, pc, program_instructions, error_message,
          symbol_table, instruction_address, variable_address,
          stripped_instructions, binary, exception

vars == <<program_lines, pc, program_instructions, error_message,
          symbol_table, instruction_address, variable_address,
          stripped_instructions, binary, exception>>

(***************************************************************************)
(* Characters and text helpers                                             *)
(***************************************************************************)
Digits == <<"0", "1", "2", "3", "4", "5", "6", "7", "8", "9">>

DigitSet == {Digits[i] : i \in 1..10}

Letters ==
  {"a","b","c","d","e","f","g","h","i","j","k","l","m",
   "n","o","p","q","r","s","t","u","v","w","x","y","z",
   "A","B","C","D","E","F","G","H","I","J","K","L","M",
   "N","O","P","Q","R","S","T","U","V","W","X","Y","Z"}

\* str.strip() with no argument removes these (vertical tab has no TLA+ escape)
Whitespace == {" ", "\t", "\n", "\r", "\f"}

\* os.linesep on the platforms the tests run on
linesep == <<"\n">>

DigitValue(c) == CHOOSE d \in 0..9 : Digits[d + 1] = c

\* "%d" % n and str(n) for a non-negative integer n
RECURSIVE ToDecimal(_)
ToDecimal(n) ==
  IF n < 10 THEN <<Digits[n + 1]>>
  ELSE ToDecimal(n \div 10) \o <<Digits[(n % 10) + 1]>>

\* int(s) for a string of decimal digits
RECURSIVE ToInt(_)
ToInt(s) ==
  IF Len(s) = 0 THEN 0
  ELSE 10 * ToInt(SubSeq(s, 1, Len(s) - 1)) + DigitValue(s[Len(s)])

\* str.isdigit(): non-empty and every character a digit
IsDigit(s) == Len(s) > 0 /\ \A i \in 1..Len(s) : s[i] \in DigitSet

\* str.strip()
Strip(s) ==
  LET keep == {i \in 1..Len(s) : s[i] \notin Whitespace}
  IN IF keep = {} THEN <<>>
     ELSE LET first == CHOOSE i \in keep : \A j \in keep : i <= j
              last == CHOOSE i \in keep : \A j \in keep : j <= i
          IN SubSeq(s, first, last)

\* os.linesep.join(parts)
RECURSIVE Join(_, _)
Join(sep, parts) ==
  IF Len(parts) = 0 THEN <<>>
  ELSE IF Len(parts) = 1 THEN parts[1]
  ELSE parts[1] \o sep \o Join(sep, Tail(parts))

_RE_SYMBOL_FIRST == Letters \cup {"_", "$", ".", ":"}

_RE_SYMBOL_REST == _RE_SYMBOL_FIRST \cup DigitSet

\* s matches [a-zA-Z_\$\.:][a-zA-Z0-9_\$\.:]* in full
_RE_SYMBOL(s) ==
  /\ Len(s) >= 1
  /\ s[1] \in _RE_SYMBOL_FIRST
  /\ \A i \in 2..Len(s) : s[i] \in _RE_SYMBOL_REST

RemoveTrailingComment(line) ==
  LET hits == {i \in 1..(Len(line) - 1) : line[i] = "/" /\ line[i + 1] = "/"}
  IN IF hits = {} THEN line
     ELSE LET index == CHOOSE i \in hits : \A j \in hits : i <= j
          IN SubSeq(line, 1, index - 1)

(***************************************************************************)
(* An instruction object is the tuple of its class and its fields.  The    *)
(* classes are written "A" (AInstruction), "C" (CInstruction), "L"         *)
(* (LInstruction), "Empty" (EmptyInstruction) and "Error"                  *)
(* (ErrorInstruction); Type(i) is i.__class__.__name__.                    *)
(***************************************************************************)
Type(instruction) == instruction[1]

\* the value a Parse method returns on failure
False == <<"False">>

(***************************************************************************)
(* AInstruction                                                            *)
(***************************************************************************)
\* AInstruction(value): <<"A", type(value), value>>, the value an int or a
\* str (a symbol)
AInstructionInt(n) == <<"A", "int", n>>

AInstructionStr(s) == <<"A", "str", s>>

\* type(instruction.value) == str
IsStr(instruction) == instruction[2] = "str"

\* instruction.value of an AInstruction
Value(instruction) == instruction[3]

\* the bound _ParseValue compares an integer literal against
AddressLimit == 32768

\* ^@(\d*|SYMBOL)$ : the set of values of group 1 (empty when no match)
_RE_AINSTRUCTION(s) ==
  IF Len(s) >= 1 /\ s[1] = "@"
  THEN LET rest == SubSeq(s, 2, Len(s))
       IN IF (\A i \in 1..Len(rest) : rest[i] \in DigitSet) \/ _RE_SYMBOL(rest)
          THEN {rest} ELSE {}
  ELSE {}

\* mutant of AInstruction_ParseValue: the upper bound is inclusive
AInstruction_ParseValue_Inclusive(value) ==
  IF IsDigit(value)
  THEN LET int_value == ToInt(value)
       IN IF 0 <= int_value /\ int_value <= AddressLimit
          THEN AInstructionInt(int_value) ELSE False
  ELSE AInstructionStr(value)

AInstruction_ParseValue(value) ==
  IF IsDigit(value)
  THEN LET int_value == ToInt(value)
       IN IF 0 <= int_value /\ int_value < AddressLimit
          THEN AInstructionInt(int_value) ELSE False
  ELSE AInstructionStr(value)

AInstruction_Parse(line) ==
  LET match == _RE_AINSTRUCTION(Strip(RemoveTrailingComment(line)))
  IN IF match # {} THEN AInstruction_ParseValue(CHOOSE g \in match : TRUE)
     ELSE False

\* the number of bits _ToBinary15 produces
AddressBits == 15

\* mutant of ToBinary15Loop: the bit is appended, result = result + str(number % 2)
RECURSIVE ToBinary15Loop_Appends(_, _, _)
ToBinary15Loop_Appends(i, number, result) ==
  IF i = 0 THEN result
  ELSE ToBinary15Loop_Appends(i - 1, number \div 2, result \o ToDecimal(number % 2))

\* _ToBinary15: AddressBits rounds of result = str(number % 2) + result
RECURSIVE ToBinary15Loop(_, _, _)
ToBinary15Loop(i, number, result) ==
  IF i = 0 THEN result
  ELSE ToBinary15Loop(i - 1, number \div 2, ToDecimal(number % 2) \o result)

_ToBinary15(number) == ToBinary15Loop(AddressBits, number, <<>>)

AInstruction_ToBinary(instruction) == <<"0">> \o _ToBinary15(Value(instruction))

(***************************************************************************)
(* CInstruction                                                            *)
(***************************************************************************)
\* the alternatives of the group in _RE_DEST
_RE_DEST == {<<"M">>, <<"D">>, <<"M", "D">>, <<"A">>, <<"A", "M">>, <<"A", "D">>, <<"A", "M", "D">>}

\* the alternatives of the group in _RE_JUMP
_RE_JUMP == {<<"J", "G", "T">>, <<"J", "E", "Q">>, <<"J", "G", "E">>, <<"J", "L", "T">>, <<"J", "N", "E">>, <<"J", "L", "E">>, <<"J", "M", "P">>}

\* the alternatives of the group in _RE_COMP
_RE_COMP ==
  {<<"0">>, <<"1">>, <<"-", "1">>, <<"D">>, <<"A">>, <<"!", "D">>, <<"!", "A">>, <<"-", "D">>, <<"-", "A">>,
   <<"D", "+", "1">>, <<"A", "+", "1">>, <<"D", "-", "1">>, <<"A", "-", "1">>, <<"D", "+", "A">>, <<"D", "-", "A">>, <<"A", "-", "D">>, <<"D", "&", "A">>, <<"D", "|", "A">>,
   <<"M">>, <<"!", "M">>, <<"-", "M">>, <<"M", "+", "1">>, <<"M", "-", "1">>, <<"D", "+", "M">>, <<"D", "-", "M">>, <<"M", "-", "D">>, <<"D", "&", "M">>, <<"D", "|", "M">>}

_COMP_TABLE ==
  (<<"0">> :> <<"0", "1", "0", "1", "0", "1", "0">>) @@
  (<<"1">> :> <<"0", "1", "1", "1", "1", "1", "1">>) @@
  (<<"-", "1">> :> <<"0", "1", "1", "1", "0", "1", "0">>) @@
  (<<"D">> :> <<"0", "0", "0", "1", "1", "0", "0">>) @@
  (<<"A">> :> <<"0", "1", "1", "0", "0", "0", "0">>) @@
  (<<"!", "D">> :> <<"0", "0", "0", "1", "1", "0", "1">>) @@
  (<<"!", "A">> :> <<"0", "1", "1", "0", "0", "0", "1">>) @@
  (<<"-", "D">> :> <<"0", "0", "0", "1", "1", "1", "1">>) @@
  (<<"D", "+", "1">> :> <<"0", "0", "1", "1", "1", "1", "1">>) @@
  (<<"A", "+", "1">> :> <<"0", "1", "1", "0", "1", "1", "1">>) @@
  (<<"D", "-", "1">> :> <<"0", "0", "0", "1", "1", "1", "0">>) @@
  (<<"A", "-", "1">> :> <<"0", "1", "1", "0", "0", "1", "0">>) @@
  (<<"D", "+", "A">> :> <<"0", "0", "0", "0", "0", "1", "0">>) @@
  (<<"D", "-", "A">> :> <<"0", "0", "1", "0", "0", "1", "1">>) @@
  (<<"A", "-", "D">> :> <<"0", "0", "0", "0", "1", "1", "1">>) @@
  (<<"D", "&", "A">> :> <<"0", "0", "0", "0", "0", "0", "0">>) @@
  (<<"D", "|", "A">> :> <<"0", "0", "1", "0", "1", "0", "1">>) @@
  (<<"M">> :> <<"1", "1", "1", "0", "0", "0", "0">>) @@
  (<<"!", "M">> :> <<"1", "1", "1", "0", "0", "0", "1">>) @@
  (<<"-", "M">> :> <<"1", "1", "1", "0", "0", "1", "1">>) @@
  (<<"M", "+", "1">> :> <<"1", "1", "1", "0", "1", "1", "1">>) @@
  (<<"M", "-", "1">> :> <<"1", "1", "1", "0", "0", "1", "0">>) @@
  (<<"D", "+", "M">> :> <<"1", "0", "0", "0", "0", "1", "0">>) @@
  (<<"D", "-", "M">> :> <<"1", "0", "1", "0", "0", "1", "1">>) @@
  (<<"M", "-", "D">> :> <<"1", "0", "0", "0", "1", "1", "1">>) @@
  (<<"D", "&", "M">> :> <<"1", "0", "0", "0", "0", "0", "0">>) @@
  (<<"D", "|", "M">> :> <<"1", "0", "1", "0", "1", "0", "1">>)

_DEST_TABLE ==
  (<<>> :> <<"0", "0", "0">>) @@
  (<<"M">> :> <<"0", "0", "1">>) @@
  (<<"D">> :> <<"0", "1", "0">>) @@
  (<<"M", "D">> :> <<"0", "1", "1">>) @@
  (<<"A">> :> <<"1", "0", "0">>) @@
  (<<"A", "M">> :> <<"1", "0", "1">>) @@
  (<<"A", "D">> :> <<"1", "1", "0">>) @@
  (<<"A", "M", "D">> :> <<"1", "1", "1">>)

_JUMP_TABLE ==
  (<<>> :> <<"0", "0", "0">>) @@
  (<<"J", "G", "T">> :> <<"0", "0", "1">>) @@
  (<<"J", "E", "Q">> :> <<"0", "1", "0">>) @@
  (<<"J", "G", "E">> :> <<"0", "1", "1">>) @@
  (<<"J", "L", "T">> :> <<"1", "0", "0">>) @@
  (<<"J", "N", "E">> :> <<"1", "0", "1">>) @@
  (<<"J", "L", "E">> :> <<"1", "1", "0">>) @@
  (<<"J", "M", "P">> :> <<"1", "1", "1">>)

CInstruction(dest, comp, jump) == <<"C", dest, comp, jump>>

Dest(instruction) == instruction[2]

Comp(instruction) == instruction[3]

Jump(instruction) == instruction[4]

\* ^(?:(DEST)=)?(COMP)(?:;(JUMP))?$ : the set of <<group 1, group 2, group 3>>
\* of the ways s matches; an optional group that takes no part is <<>> (None)
_RE_CINSTRUCTION(s) ==
  {g \in (_RE_DEST \cup {<<>>}) \X _RE_COMP \X (_RE_JUMP \cup {<<>>}) :
     s = (IF g[1] = <<>> THEN <<>> ELSE g[1] \o <<"=">>) \o g[2]
         \o (IF g[3] = <<>> THEN <<>> ELSE <<";">> \o g[3])}

\* dest = match.group(1) if match.group(1) else "", likewise jump
CInstruction_ParseMatch(match) == CInstruction(match[1], match[2], match[3])

CInstruction_Parse(line) ==
  LET match == _RE_CINSTRUCTION(Strip(RemoveTrailingComment(line)))
  IN IF match # {} THEN CInstruction_ParseMatch(CHOOSE g \in match : TRUE)
     ELSE False

\* raised by a dictionary lookup of a missing key
KeyError == <<"K", "e", "y", "E", "r", "r", "o", "r">>

\* "111%s%s%s" % (...): a missing key raises KeyError instead of returning
CInstruction_ToBinary(instruction) ==
  IF Comp(instruction) \in DOMAIN _COMP_TABLE
     /\ Dest(instruction) \in DOMAIN _DEST_TABLE
     /\ Jump(instruction) \in DOMAIN _JUMP_TABLE
  THEN <<"1", "1", "1">> \o _COMP_TABLE[Comp(instruction)]
             \o _DEST_TABLE[Dest(instruction)]
             \o _JUMP_TABLE[Jump(instruction)]
  ELSE KeyError

(***************************************************************************)
(* LInstruction, EmptyInstruction, ErrorInstruction                        *)
(***************************************************************************)
LInstruction(value) == <<"L", value>>

\* instruction.value of an LInstruction
Label(instruction) == instruction[2]

\* ^\((SYMBOL)\)$ : the set of values of group 1 (empty when no match)
_RE_LINSTRUCTION(s) ==
  IF Len(s) >= 2 /\ s[1] = "(" /\ s[Len(s)] = ")" /\ _RE_SYMBOL(SubSeq(s, 2, Len(s) - 1))
  THEN {SubSeq(s, 2, Len(s) - 1)} ELSE {}

LInstruction_Parse(line) ==
  LET match == _RE_LINSTRUCTION(Strip(RemoveTrailingComment(line)))
  IN IF match # {} THEN LInstruction(CHOOSE g \in match : TRUE)
     ELSE False

EmptyInstruction == <<"Empty">>

EmptyInstruction_Parse(line) ==
  LET stripped_line == Strip(RemoveTrailingComment(line))
  IN IF stripped_line = <<>> THEN EmptyInstruction ELSE False

ErrorInstruction(line) == <<"Error", line>>

\* instruction.line of an ErrorInstruction
Line(instruction) == instruction[2]

ErrorInstruction_Parse(line) == ErrorInstruction(line)

\* _INSTRUCTIONS order: the first Parse whose result is truthy wins (every
\* instruction object is truthy, False is not)
ParseInstruction(line) ==
  LET a == AInstruction_Parse(line)
      c == CInstruction_Parse(line)
      l == LInstruction_Parse(line)
      e == EmptyInstruction_Parse(line)
  IN IF a # False THEN a
     ELSE IF c # False THEN c
     ELSE IF l # False THEN l
     ELSE IF e # False THEN e
     ELSE ErrorInstruction_Parse(line)

(***************************************************************************)
(* Parse                                                                   *)
(***************************************************************************)
\* "Error at line %d: %s" % (line_number, instruction.line)
ErrorEntry(line_number, line) ==
  <<"E", "r", "r", "o", "r", " ", "a", "t", " ", "l", "i", "n", "e", " ">> \o ToDecimal(line_number) \o <<":", " ">> \o line

\* TLC evaluates an operator's arguments when they are first used; Done(st)
\* evaluates the loop state st, so that the rounds before it are over before
\* the next round starts, as in a loop
Done(st) == st = st

\* mutant of ParseLoopBody: empty and comment lines are not counted
ParseLoopBody_SkipsEmpty(st, instruction) ==
  [errors |-> IF Type(instruction) = "Error"
              THEN Append(st.errors, ErrorEntry(st.line_number, Line(instruction)))
              ELSE st.errors,
   line_number |-> IF Type(instruction) = "Empty"
                   THEN st.line_number ELSE st.line_number + 1]

\* one round of the loop of Parse over [errors, line_number]
ParseLoopBody(st, instruction) ==
  [errors |-> IF Type(instruction) = "Error"
              THEN Append(st.errors, ErrorEntry(st.line_number, Line(instruction)))
              ELSE st.errors,
   line_number |-> st.line_number + 1]

\* rounds lo..hi of the loop of Parse, in order, from the loop state st
RECURSIVE ParseLoop(_, _, _, _)
ParseLoop(instructions, lo, hi, st) ==
  IF lo > hi THEN st
  ELSE IF lo = hi THEN ParseLoopBody(st, instructions[lo])
  ELSE LET mid == (lo + hi) \div 2
           left == ParseLoop(instructions, lo, mid, st)
       IN IF Done(left) THEN ParseLoop(instructions, mid + 1, hi, left) ELSE left

\* map(ParseInstruction, program_lines)
ParseMap(lines) == [i \in 1..Len(lines) |-> ParseInstruction(lines[i])]

\* the errors list of Parse when its loop ends
ParseErrors(instructions) ==
  ParseLoop(instructions, 1, Len(instructions), [errors |-> <<>>, line_number |-> 1]).errors

(***************************************************************************)
(* AnalyzeSymbols                                                          *)
(***************************************************************************)
InitialSymbolTable ==
  (<<"S", "P">> :> 0) @@ (<<"L", "C", "L">> :> 1) @@ (<<"A", "R", "G">> :> 2) @@ (<<"T", "H", "I", "S">> :> 3) @@
  (<<"T", "H", "A", "T">> :> 4) @@ (<<"S", "C", "R", "E", "E", "N">> :> 16384) @@ (<<"K", "B", "D">> :> 24576) @@
  [s \in {<<"R">> \o ToDecimal(i) : i \in 0..15} |-> ToInt(Tail(s))]

\* symbol_table[key] = value
SetItem(table, key, value) == (key :> value) @@ table

\* the address of the first variable
FirstVariableAddress == 16

\* mutant of ResolveLabelBody: a label takes an address of its own
ResolveLabelBody_CountsLabels(st, instruction) ==
  IF Type(instruction) = "L"
  THEN [symbol_table |->
          SetItem(st.symbol_table, Label(instruction), st.instruction_address),
        instruction_address |-> st.instruction_address + 1]
  ELSE IF Type(instruction) \in {"A", "C"}
  THEN [st EXCEPT !.instruction_address = st.instruction_address + 1]
  ELSE st

\* one round of the "Resolve labels" loop over [symbol_table, instruction_address]
ResolveLabelBody(st, instruction) ==
  IF Type(instruction) = "L"
  THEN [st EXCEPT !.symbol_table =
          SetItem(st.symbol_table, Label(instruction), st.instruction_address)]
  ELSE IF Type(instruction) \in {"A", "C"}
  THEN [st EXCEPT !.instruction_address = st.instruction_address + 1]
  ELSE st

RECURSIVE ResolveLabels(_, _, _, _)
ResolveLabels(instructions, lo, hi, st) ==
  IF lo > hi THEN st
  ELSE IF lo = hi THEN ResolveLabelBody(st, instructions[lo])
  ELSE LET mid == (lo + hi) \div 2
           left == ResolveLabels(instructions, lo, mid, st)
       IN IF Done(left) THEN ResolveLabels(instructions, mid + 1, hi, left) ELSE left

\* mutant of ResolveVariableBody: no test of "value not in symbol_table"
ResolveVariableBody_NoLookup(st, instruction) ==
  IF Type(instruction) = "A" /\ IsStr(instruction)
  THEN [symbol_table |-> SetItem(st.symbol_table, Value(instruction), st.variable_address),
        variable_address |-> st.variable_address + 1]
  ELSE st

\* one round of the "Resolve variables" loop over [symbol_table, variable_address]
ResolveVariableBody(st, instruction) ==
  IF /\ Type(instruction) = "A"
     /\ IsStr(instruction)
     /\ Value(instruction) \notin DOMAIN st.symbol_table
  THEN [symbol_table |-> SetItem(st.symbol_table, Value(instruction), st.variable_address),
        variable_address |-> st.variable_address + 1]
  ELSE st

RECURSIVE ResolveVariables(_, _, _, _)
ResolveVariables(instructions, lo, hi, st) ==
  IF lo > hi THEN st
  ELSE IF lo = hi THEN ResolveVariableBody(st, instructions[lo])
  ELSE LET mid == (lo + hi) \div 2
           left == ResolveVariables(instructions, lo, mid, st)
       IN IF Done(left) THEN ResolveVariables(instructions, mid + 1, hi, left) ELSE left

\* the loop state when the first loop of AnalyzeSymbols ends
LabelPass(instructions) ==
  ResolveLabels(instructions, 1, Len(instructions),
                [symbol_table |-> InitialSymbolTable, instruction_address |-> 0])

\* the loop state when the second loop of AnalyzeSymbols ends
VariablePass(instructions, table) ==
  ResolveVariables(instructions, 1, Len(instructions),
                   [symbol_table |-> table, variable_address |-> FirstVariableAddress])

\* AnalyzeSymbols(program_instructions): the table it returns
AnalyzeSymbols(instructions) ==
  VariablePass(instructions, LabelPass(instructions).symbol_table).symbol_table

(***************************************************************************)
(* StripSymbols and TranslateToBinary                                      *)
(***************************************************************************)
\* mutant of StripBody: a symbolic AInstruction is appended as it is
StripBody_KeepsSymbols(table, instruction) ==
  IF Type(instruction) \in {"A", "C"} THEN <<instruction>> ELSE <<>>

\* what one round of the loop of StripSymbols appends to stripped_instructions
StripBody(table, instruction) ==
  IF Type(instruction) = "A"
  THEN IF IsStr(instruction)
       THEN <<AInstructionInt(table[Value(instruction)])>>
       ELSE <<instruction>>
  ELSE IF Type(instruction) = "C" THEN <<instruction>>
  ELSE <<>>

\* what rounds lo..hi of the loop of StripSymbols append, in order
RECURSIVE StripLoop(_, _, _, _)
StripLoop(instructions, table, lo, hi) ==
  IF lo > hi THEN <<>>
  ELSE IF lo = hi THEN StripBody(table, instructions[lo])
  ELSE LET mid == (lo + hi) \div 2
       IN StripLoop(instructions, table, lo, mid)
          \o StripLoop(instructions, table, mid + 1, hi)

\* StripSymbols(program_instructions), with the table AnalyzeSymbols returned
StripSymbols(instructions) ==
  StripLoop(instructions, AnalyzeSymbols(instructions), 1, Len(instructions))

ToBinary(instruction) ==
  IF Type(instruction) = "A" THEN AInstruction_ToBinary(instruction)
  ELSE CInstruction_ToBinary(instruction)

\* map(lambda i: i.ToBinary(), program_instructions)
TranslateMap(instructions) == [i \in 1..Len(instructions) |-> ToBinary(instructions[i])]

(***************************************************************************)
(* Assemble as a state machine: Parse, the two loops of AnalyzeSymbols,    *)
(* the loop of StripSymbols, TranslateToBinary.  pc names the step that    *)
(* runs next; "returned" and "raised" are the two ways a call ends.        *)
(***************************************************************************)
\* longest program of the main specification
MaxLines == 3

\* largest integer literal of the address specification
MaxLiteral == 33000

\* the lines the programs of the main specification are made of
LinePool ==
  {<<"@", "2">>, <<"@", "i">>, <<"@", "j">>, <<"@">>, <<"@", "L">>, <<"(", "L", ")">>,
   <<"@", "S", "P">>, <<"(", "S", "P", ")">>, <<"D", "=", "-", "A">>,
   <<" ", "0", ";", "J", "M", "P", " ", "/", "/", "x", "\n">>,
   <<"/", "/", "c">>, <<"D", "M", "=", "1">>,
   <<" ", "@", "3", "2", "7", "6", "8", " ", "/", "/", "r">>}

Programs(pool, n) == UNION {[1..k -> pool] : k \in 0..n}

\* every line DEST=COMP;JUMP the Compute grammar accepts
ComputeLines ==
  {(IF d = <<>> THEN <<>> ELSE d \o <<"=">>) \o c \o (IF j = <<>> THEN <<>> ELSE <<";">> \o j) :
     <<d, c, j>> \in (_RE_DEST \cup {<<>>}) \X _RE_COMP \X (_RE_JUMP \cup {<<>>})}

\* @ followed by a decimal literal, with and without leading zeros
AddressLines ==
  {<<"@">> \o ToDecimal(v) : v \in 0..MaxLiteral}
  \cup {<<"@", "0", "0", "0", "1", "2">>, <<"@", "0", "0", "3", "2", "7", "6", "8">>, <<"@", "1", "2", "3", "4", "5", "6", "7", "8", "9">>}

\* AddressLimit Address lines, then a label and a reference to it
LargeProgram == [i \in 1..AddressLimit |-> <<"@", "0">>] \o <<<<"(", "L", ")">>, <<"@", "L">>>>

InitWith(programs) ==
  /\ program_lines \in programs
  /\ pc = "Parse"
  /\ program_instructions = <<>>
  /\ error_message = <<>>
  /\ symbol_table = <<>>
  /\ instruction_address = 0
  /\ variable_address = 0
  /\ stripped_instructions = <<>>
  /\ binary = <<>>
  /\ exception = "None"

Init == InitWith(Programs(LinePool, MaxLines))

InitCompute == InitWith({<<line>> : line \in ComputeLines})

InitAddress == InitWith({<<line>> : line \in AddressLines})

InitLarge == InitWith(Programs({<<"@", "i">>, <<"(", "L", ")">>, <<"@", "L">>, <<"D", "=", "A">>}, MaxLines) \cup {LargeProgram})

\* Parse(program_lines): raises AssemblerError or returns the instructions
ParseStep ==
  /\ pc = "Parse"
  /\ LET instructions == ParseMap(program_lines)
         errors == ParseErrors(instructions)
     IN /\ program_instructions' = instructions
        /\ IF Len(errors) > 0
           THEN /\ exception' = "AssemblerError"
                /\ error_message' = Join(linesep, errors)
                /\ pc' = "raised"
           ELSE /\ pc' = "AnalyzeLabels"
                /\ UNCHANGED <<exception, error_message>>
  /\ UNCHANGED <<program_lines, symbol_table, instruction_address,
                 variable_address, stripped_instructions, binary>>

\* AnalyzeSymbols, first loop
AnalyzeLabelsStep ==
  /\ pc = "AnalyzeLabels"
  /\ LET st == LabelPass(program_instructions)
     IN /\ symbol_table' = st.symbol_table
        /\ instruction_address' = st.instruction_address
  /\ variable_address' = FirstVariableAddress
  /\ pc' = "AnalyzeVariables"
  /\ UNCHANGED <<program_lines, program_instructions, error_message,
                 stripped_instructions, binary, exception>>

\* AnalyzeSymbols, second loop
AnalyzeVariablesStep ==
  /\ pc = "AnalyzeVariables"
  /\ LET st == VariablePass(program_instructions, symbol_table)
     IN /\ symbol_table' = st.symbol_table
        /\ variable_address' = st.variable_address
  /\ pc' = "StripSymbols"
  /\ UNCHANGED <<program_lines, program_instructions, error_message,
                 instruction_address, stripped_instructions, binary, exception>>

\* StripSymbols, the loop after the call of AnalyzeSymbols
StripStep ==
  /\ pc = "StripSymbols"
  /\ stripped_instructions' =
       StripLoop(program_instructions, symbol_table, 1, Len(program_instructions))
  /\ pc' = "TranslateToBinary"
  /\ UNCHANGED <<program_lines, program_instructions, error_message, symbol_table,
                 instruction_address, variable_address, binary, exception>>

\* TranslateToBinary: a KeyError of any ToBinary leaves Assemble, else it returns
TranslateStep ==
  /\ pc = "TranslateToBinary"
  /\ LET result == TranslateMap(stripped_instructions)
     IN IF \E i \in 1..Len(result) : result[i] = KeyError
        THEN /\ exception' = "KeyError"
             /\ pc' = "raised"
             /\ UNCHANGED binary
        ELSE /\ binary' = result
             /\ pc' = "returned"
             /\ UNCHANGED exception
  /\ UNCHANGED <<program_lines, program_instructions, error_message, symbol_table,
                 instruction_address, variable_address, stripped_instructions>>

Next ==
  \/ ParseStep
  \/ AnalyzeLabelsStep
  \/ AnalyzeVariablesStep
  \/ StripStep
  \/ TranslateStep

Spec == Init /\ [][Next]_vars

SpecCompute == InitCompute /\ [][Next]_vars

SpecAddress == InitAddress /\ [][Next]_vars

SpecLarge == InitLarge /\ [][Next]_vars

(***************************************************************************)
(* Vocabulary of the properties                                            *)
(***************************************************************************)
\* Assemble has ended, by returning or by raising
Ended == pc \in {"returned", "raised"}

\* StripSymbols has returned: stripped_instructions is its result
StripDone ==
  \/ pc \in {"TranslateToBinary", "returned"}
  \/ pc = "raised" /\ exception = "KeyError"

IsEncodable(instruction) == Type(instruction) \in {"A", "C"}

\* lines whose instruction is an Address or Compute instruction
EncodableLines == {i \in 1..Len(program_instructions) : IsEncodable(program_instructions[i])}

ErrorLines ==
  {i \in 1..Len(program_instructions) : Type(program_instructions[i]) = "Error"}

\* the number of Address and Compute instructions before line j
CountBefore(j) == Cardinality({k \in EncodableLines : k < j})

\* the place in the output of StripSymbols of the instruction of line i
OutIndex(i) == Cardinality({k \in EncodableLines : k <= i})

\* the lines that declare the label s, and the lines that refer to the symbol s
LabelDecls(s) ==
  {j \in 1..Len(program_instructions) :
     Type(program_instructions[j]) = "L" /\ Label(program_instructions[j]) = s}

Refs(s) ==
  {i \in 1..Len(program_instructions) :
     /\ Type(program_instructions[i]) = "A"
     /\ IsStr(program_instructions[i])
     /\ Value(program_instructions[i]) = s}

LabelSymbols ==
  {Label(program_instructions[j]) :
     j \in {k \in 1..Len(program_instructions) : Type(program_instructions[k]) = "L"}}

ReferencedSymbols ==
  {Value(program_instructions[i]) :
     i \in {k \in 1..Len(program_instructions) :
              Type(program_instructions[k]) = "A" /\ IsStr(program_instructions[k])}}

\* referenced symbols that are neither platform-reserved nor declared as a label
VariableSymbols == ReferencedSymbols \ (DOMAIN InitialSymbolTable \cup LabelSymbols)

Min(S) == CHOOSE x \in S : \A y \in S : x <= y

Max(S) == CHOOSE x \in S : \A y \in S : y <= x

\* the elements of a finite set of integers in increasing order
RECURSIVE Increasing(_)
Increasing(S) == IF S = {} THEN <<>> ELSE <<Min(S)>> \o Increasing(S \ {Min(S)})

(***************************************************************************)
(* C1  Every Compute instruction the grammar accepts is encoded, by        *)
(* ToBinary, as the 16 characters "111" + the 7-bit code of its            *)
(* computation + the 3-bit code of its destination + the 3-bit code of its *)
(* jump, an omitted destination or jump being "000".                       *)
(* Fails: "-A" is accepted by _RE_COMP and missing from _COMP_TABLE.       *)
(***************************************************************************)
C1_ComputeEncoding ==
  \A i \in 1..Len(stripped_instructions) :
    (Ended /\ Type(stripped_instructions[i]) = "C") =>
      /\ pc = "returned"
      /\ Len(binary[i]) = 16
      /\ Comp(stripped_instructions[i]) \in DOMAIN _COMP_TABLE
      /\ binary[i] = <<"1", "1", "1">> \o _COMP_TABLE[Comp(stripped_instructions[i])]
                                     \o _DEST_TABLE[Dest(stripped_instructions[i])]
                                     \o _JUMP_TABLE[Jump(stripped_instructions[i])]

(***************************************************************************)
(* C2  For 0 <= v < 2^15, AInstruction(v).ToBinary() is 16 characters, the *)
(* first "0", the other 15 the bits of v, most significant first.          *)
(***************************************************************************)
C2_AddressEncoding ==
  \A i \in 1..Len(binary) :
    LET v == Value(stripped_instructions[i])
    IN (Type(stripped_instructions[i]) = "A" /\ 0 <= v /\ v < 2^15) =>
         /\ Len(binary[i]) = 16
         /\ binary[i][1] = "0"
         /\ \A k \in 1..15 :
              binary[i][1 + k] = (IF (v \div 2^(15 - k)) % 2 = 1 THEN "1" ELSE "0")

C2_Witness ==
  /\ pc = "returned"
  /\ program_lines = <<<<"@", "2", "1", "8", "4", "5">>>>
  /\ binary = <<<<"0", "1", "0", "1", "0", "1", "0", "1", "0", "1", "0", "1", "0", "1", "0", "1">>>>

(***************************************************************************)
(* C3  Assemble ends in one of two ways: with a line classified as Error   *)
(* it raises AssemblerError and returns no binary output; with none it     *)
(* returns the binary strings, symbol resolution and encoding never        *)
(* failing.  Fails: the KeyError of C1 is a third way.                     *)
(***************************************************************************)
C3_TwoOutcomes ==
  Ended =>
    IF ErrorLines # {}
    THEN pc = "raised" /\ exception = "AssemblerError" /\ binary = <<>>
    ELSE pc = "returned" /\ exception = "None"

(***************************************************************************)
(* C4  When Parse fails, the message is the entries                        *)
(* "Error at line <N>: <original line>" of exactly the lines classified as *)
(* Error, in increasing line order, <N> the 1-based place of the line      *)
(* among all lines, the text the unstripped line.                          *)
(***************************************************************************)
C4_Entries ==
  LET lines == Increasing(ErrorLines)
  IN [k \in 1..Len(lines) |->
        <<"E", "r", "r", "o", "r", " ", "a", "t", " ", "l", "i", "n", "e", " ">> \o ToDecimal(lines[k]) \o <<":", " ">> \o program_lines[lines[k]]]

C4_ErrorReport ==
  (pc = "raised" /\ exception = "AssemblerError") =>
    /\ ErrorLines # {}
    /\ error_message = Join(linesep, C4_Entries)

C4_Witness ==
  /\ pc = "raised"
  /\ program_lines = <<<<" ", "@", "3", "2", "7", "6", "8", " ", "/", "/", "r">>, <<"/", "/", "c">>, <<"D", "M", "=", "1">>>>
  /\ error_message = <<"E", "r", "r", "o", "r", " ", "a", "t", " ", "l", "i", "n", "e", " ", "1", ":", " ", " ", "@", "3", "2", "7", "6", "8", " ", "/", "/", "r", "\n", "E", "r", "r", "o", "r", " ", "a", "t", " ", "l", "i", "n", "e", " ", "3", ":", " ", "D", "M", "=", "1">>

(***************************************************************************)
(* C5  As claimed: every reference to a symbol that a Label instruction    *)
(* declares resolves to the number of Address and Compute instructions     *)
(* before that declaration, and no declared symbol takes an address from   *)
(* the variable counter.  Fails for a symbol declared more than once: the  *)
(* later declaration overwrites the earlier one.                           *)
(***************************************************************************)
C5_NoLabelIsVariable ==
  variable_address - FirstVariableAddress = Cardinality(VariableSymbols)

C6_Rank(s) == Cardinality({t \in VariableSymbols : Min(Refs(t)) < Min(Refs(s))})

C6_VariableAddresses ==
  StripDone =>
    \A s \in VariableSymbols :
      /\ symbol_table[s] = 16 + C6_Rank(s)
      /\ \A i \in Refs(s) :
           stripped_instructions[OutIndex(i)] = AInstructionInt(16 + C6_Rank(s))

\* two variables, the first of them referenced again after the second
C6_Witness ==
  /\ StripDone
  /\ \E s, t \in VariableSymbols :
       /\ C6_Rank(t) = 1
       /\ \E i \in Refs(s) : i > Min(Refs(t)) /\ Min(Refs(s)) < Min(Refs(t))

(***************************************************************************)
(* C7  For a program with no Error line, Assemble returns one              *)
(* 16-character string per Address or Compute line, in source order, each  *)
(* the encoding of its instruction, and nothing for the other lines.       *)
(* Fails: with the KeyError of C1 there is no output at all.               *)
(***************************************************************************)
C7_OneStringPerInstruction ==
  (Ended /\ ErrorLines = {}) =>
    /\ pc = "returned"
    /\ Len(binary) = Cardinality(EncodableLines)
    /\ \A i \in EncodableLines :
         /\ Len(binary[OutIndex(i)]) = 16
         /\ binary[OutIndex(i)] = ToBinary(stripped_instructions[OutIndex(i)])
         /\ Type(stripped_instructions[OutIndex(i)]) = Type(program_instructions[i])

(***************************************************************************)
(* C8  A line that is "@" and then only digits, of a value outside         *)
(* [0, 2^15), is rejected by AInstruction.Parse, becomes an Error          *)
(* instruction, and makes Assemble raise AssemblerError.                   *)
(***************************************************************************)
C8_OutOfRange(line) ==
  /\ Len(line) >= 2
  /\ line[1] = "@"
  /\ \A k \in 2..Len(line) : line[k] \in DigitSet
  /\ ToInt(Tail(line)) >= 2^15

C8_RangeError ==
  \A i \in 1..Len(program_lines) :
    C8_OutOfRange(program_lines[i]) =>
      /\ AInstruction_Parse(program_lines[i]) = False
      /\ pc # "Parse" =>
           /\ program_instructions[i] = ErrorInstruction(program_lines[i])
           /\ pc = "raised"
           /\ exception = "AssemblerError"

C8_Witness ==
  /\ pc = "raised"
  /\ program_lines = <<<<"@", "3", "2", "7", "6", "8">>>>
  /\ Type(program_instructions[1]) = "Error"

(***************************************************************************)
(* C9  Every Address instruction StripSymbols returns holds an integer v   *)
(* with 0 <= v < 2^15, whatever the length of the program.                 *)
(* Fails: a label after 2^15 instructions resolves to 2^15.                *)
(***************************************************************************)
C9_ResolvedInRange ==
  \A i \in 1..Len(stripped_instructions) :
    Type(stripped_instructions[i]) = "A" =>
      /\ ~IsStr(stripped_instructions[i])
      /\ 0 <= Value(stripped_instructions[i])
      /\ Value(stripped_instructions[i]) < 2^15

(***************************************************************************)
(* C10  Symbol resolution is idempotent: StripSymbols of the output of     *)
(* StripSymbols is that output, instruction for instruction, and           *)
(* AnalyzeSymbols of it is the initial platform table.                     *)
(***************************************************************************)
C10_Idempotent ==
  StripDone =>
    /\ StripSymbols(stripped_instructions) = stripped_instructions
    /\ AnalyzeSymbols(stripped_instructions) = InitialSymbolTable

\* a program with a label, a reference to it and a variable
C10_Witness ==
  /\ StripDone
  /\ VariableSymbols # {}
  /\ \E s \in LabelSymbols : Refs(s) # {}
  /\ Len(stripped_instructions) < Len(program_instructions)

(***************************************************************************)
(* C11  Every Address instruction ParseInstruction produces holds an       *)
(* integer in [0, 2^15) or a symbol name that is non-empty, does not start *)
(* with a digit and is made of letters, digits, "_", "$", "." and ":"; the *)
(* line "@" alone is not an Address instruction.                           *)
(* Fails: \d* matches no digit at all, "".isdigit() is false, and "@"      *)
(* becomes AInstruction("").                                               *)
(***************************************************************************)
C11_SymbolName(s) ==
  /\ Len(s) >= 1
  /\ s[1] \notin DigitSet
  /\ \A k \in 1..Len(s) : s[k] \in Letters \cup DigitSet \cup {"_", "$", ".", ":"}

C11_AddressValues ==
  \A i \in 1..Len(program_instructions) :
    /\ Type(program_instructions[i]) = "A" =>
         IF IsStr(program_instructions[i])
         THEN C11_SymbolName(Value(program_instructions[i]))
         ELSE /\ 0 <= Value(program_instructions[i])
              /\ Value(program_instructions[i]) < 2^15
    /\ Strip(RemoveTrailingComment(program_lines[i])) = <<"@">> =>
         Type(program_instructions[i]) # "A"

(***************************************************************************)
(* C12  During AnalyzeSymbols the symbol table only grows: no round of the *)
(* label loop or of the variable loop changes the address of a symbol that *)
(* already has one, so every platform-reserved symbol keeps its predefined *)
(* address in the returned table and a label has one address even when it  *)
(* is declared more than once.                                             *)
(* Fails: the label loop assigns symbol_table[label] unconditionally, so a *)
(* label named as a reserved symbol, or declared twice, overwrites.        *)
(***************************************************************************)
\* the table after the first k rounds of the label loop
C12_LabelTable(k) ==
  ResolveLabels(program_instructions, 1, k,
                [symbol_table |-> InitialSymbolTable,
                 instruction_address |-> 0]).symbol_table

\* the table after the label loop and the first k rounds of the variable loop
C12_VariableTable(k) ==
  ResolveVariables(program_instructions, 1, k,
                   [symbol_table |-> C12_LabelTable(Len(program_instructions)),
                    variable_address |-> FirstVariableAddress]).symbol_table

\* every symbol of the table before is in the table after, at the same address
C12_Keeps(before, after) ==
  \A s \in DOMAIN before : s \in DOMAIN after /\ after[s] = before[s]

C12_TableOnlyGrows ==
  pc \in {"StripSymbols", "TranslateToBinary", "returned"} =>
    /\ \A k \in 1..Len(program_instructions) :
         /\ C12_Keeps(C12_LabelTable(k - 1), C12_LabelTable(k))
         /\ C12_Keeps(C12_VariableTable(k - 1), C12_VariableTable(k))
    /\ symbol_table = C12_VariableTable(Len(program_instructions))
    /\ C12_Keeps(InitialSymbolTable, symbol_table)

====
